---- MODULE Spec2Model ----
(***************************************************************************)
(* Model of Quadinator (src/dllmain.cpp): the three entry points hooked    *)
(* into the Varjo runtime (varjo_GetTextureSize, varjo_GetViewDescription, *)
(* varjo_EndFrameWithLayers), the bindings resolved by InstallHooks, and   *)
(* the memory the frame-submission hook reads and writes.                  *)
(*                                                                         *)
(* Tangents are integers in units of one quarter.  Every tangent set the   *)
(* model draws from makes each quotient the code forms in double           *)
(* arithmetic exactly representable (the divisors are powers of two), so   *)
(* the integer arithmetic below is the arithmetic of the build.            *)
(***************************************************************************)
EXTENDS Integers, Sequences, FiniteSets, TLC

\* Bounds of the model.
MaxLayers == 2
MaxViewCount == 5

VARIABLES
    attached,   \* DllMain(DLL_PROCESS_ATTACH) has run InstallHooks
    bindings,   \* the original_* pointers that are non-null
    hooked,     \* InstallHooks found the runtime and the detours are in place
    pc,         \* "idle", "returned" (a hooked call came back), "crashed"
    op,         \* the hooked entry point called last
    frame,      \* what the last hooked_EndFrameWithLayers call did
    tex,        \* what the last hooked_GetTextureSize call did
    desc        \* what the last hooked_GetViewDescription call did

vars == <<attached, bindings, hooked, pc, op, frame, tex, desc>>

----------------------------------------------------------------------------
\* Integer helpers standing for the C++ conversions.

Abs(a) == IF a < 0 THEN -a ELSE a

\* The range of int32_t.
Int32Max == 2147483647

Int32Min == -Int32Max - 1

\* a + b on int32_t, wrapping as the two's-complement addition of the build.
AddInt32(a, b) ==
    IF a > 0 /\ b > 0 /\ a > Int32Max - b THEN (a + Int32Min) + (b + Int32Min)
    ELSE IF a < 0 /\ b < 0 /\ a < Int32Min - b THEN (a - Int32Min) + (b - Int32Min)
    ELSE a + b

\* The quotient num/den truncated toward zero, den # 0.
TruncQuot(num, den) ==
    LET q == Abs(num) \div Abs(den)
    IN  IF (num < 0) = (den < 0) THEN q ELSE -q

\* The quotient num/den rounded to nearest, halves away from zero (std::round).
RoundQuot(num, den) ==
    LET t == Abs(num) \div Abs(den)
        r == Abs(num) % Abs(den)
        q == IF r >= Abs(den) - r THEN t + 1 ELSE t
    IN  IF (num < 0) = (den < 0) THEN q ELSE -q

\* A conversion that rounds to nearest instead of truncating.
StaticCastRounding(num, den, ub) ==
    IF den = 0 THEN ub ELSE RoundQuot(num, den)

\* static_cast<int32_t>(d) of the double d = num/den: truncation toward zero
\* when d is finite; den = 0 gives an infinity or a NaN, whose conversion is
\* undefined and yields ub.  (num and den are integers, so a finite quotient
\* is never larger than num and is in the range of int32_t.)
StaticCastInt32(num, den, ub) ==
    IF den = 0 THEN ub ELSE TruncQuot(num, den)

\* AlignTo<2>(n) = (n + 1) & ~1 on uint32_t, the result stored into an
\* int32_t: an even n is kept, an odd n goes to n + 1, and the largest int32_t
\* wraps to the smallest.
AlignTo2(n) ==
    IF n % 2 = 0 THEN n
    ELSE IF n = Int32Max THEN Int32Min
    ELSE n + 1

----------------------------------------------------------------------------
\* The data of Varjo_layers.h as far as the hooks touch it.

varjo_LayerMultiProjType == "MultiProj"

varjo_LayerFlag_Foveated == "Foveated"

Viewport(sc, ai, x, y, w, h) ==
    [swapChain |-> sc, arrayIndex |-> ai, x |-> x, y |-> y, width |-> w, height |-> h]

\* A varjo_FovTangents: signed tangents, left and bottom negative for a view
\* around its optical centre.
FovTangents(t, b, l, r) == [top |-> t, bottom |-> b, left |-> l, right |-> r]

\* A projection matrix is determined by the tangents it was built from.
Matrix(t) == [tangents |-> t]

View(vp, proj) == [viewport |-> vp, projection |-> proj]

----------------------------------------------------------------------------
\* The host runtime's entry points, as the hooks consume them.

\* varjo_GetAlignedView: the tangents of a projection matrix as magnitudes
\* (left and bottom positive).
GetAlignedView(m) ==
    [projectionTop    |-> m.tangents.top,
     projectionBottom |-> -m.tangents.bottom,
     projectionLeft   |-> -m.tangents.left,
     projectionRight  |-> m.tangents.right]

\* varjo_GetProjectionMatrix.
varjo_GetProjectionMatrix(t) == Matrix(t)

\* varjo_GetFoveatedFovTangents of host h: the full views are 0 and 1, every
\* other index answers with the focus tangents.
HostFoveatedFovTangents(h, viewIndex) ==
    IF viewIndex \in {0, 1} THEN h.full ELSE h.focus

\* The names InstallHooks resolves with GetProcAddress and does not detour.
Consumed ==
    {"GetAlignedView", "GetFovTangents", "GetFoveatedFovTangents", "GetRenderingGaze"}

\* GetFovTangents (lines 115-123): USE_FOVEATED_TANGENTS is 1 and the local
\* GetRenderingGaze returns true, so the call always goes through
\* original_GetFoveatedFovTangents; a null pointer there is a crash.
GetFovTangentsCrashes(b) == "GetFoveatedFovTangents" \notin b

GetFovTangents(h, viewIndex) == HostFoveatedFovTangents(h, viewIndex)

----------------------------------------------------------------------------
\* hooked_EndFrameWithLayers (lines 207-331).
\*
\* The state st of one call:
\*   caller         the caller's memory: the submission struct, its layer
\*                  array, the layers and their view arrays
\*   newLayersPtr   the vector of forwarded layer pointers
\*   projAllocator  the vector of layer copies
\*   mem            the storage of viewsAllocator and what follows it, one
\*                  cell per view: copy n holds cells 4n .. 4n+3
\*   capacity       the cells viewsAllocator reserved (4 per submitted layer)
\*   access         per layer, the indices read in the submitted view array
\*                  (src), the indices used in the 4-entry copy (local) and
\*                  whether 2 % viewCount divided by zero
\*   wild           a write landed outside the reserved cells
\*   crashed        the call faulted
\* env is what the build leaves open: the view an out-of-bounds or
\* uninitialised read finds (garbage), whether an access outside the
\* allocation faults (fault) and the result of an undefined conversion (ub).

ArraySize == 4

At(seq, j) == seq[j + 1]

IsMultiProj(layer) == layer.header.type = varjo_LayerMultiProjType

\* proj->views[j]: past the end of the submitted array the read finds garbage.
SrcView(layer, j, env) ==
    IF j < Len(layer.views) THEN At(layer.views, j) ELSE env.garbage

NoAccess == [src |-> {}, local |-> {}, divZero |-> FALSE]

\* Lines 273: the sentinel test.
IsSentinel(view) == view.viewport.width = 1 /\ view.viewport.height = 1

\* Lines 274-307: the patched focus view.
PatchFocusView(focusView, referenceView, focusFovTangents, ub) ==
    LET fullFovTangents == GetAlignedView(referenceView.projection)
        horizontalFov == fullFovTangents.projectionRight + fullFovTangents.projectionLeft
        verticalFov == fullFovTangents.projectionTop + fullFovTangents.projectionBottom
        ref == referenceView.viewport
        dx == StaticCastInt32((focusFovTangents.left + fullFovTangents.projectionLeft) * ref.width,
                              horizontalFov, ub)
        w == StaticCastInt32(Abs(focusFovTangents.right - focusFovTangents.left) * ref.width,
                             horizontalFov, ub)
        dy == StaticCastInt32((fullFovTangents.projectionTop - focusFovTangents.top) * ref.height,
                              verticalFov, ub)
        h == StaticCastInt32(Abs(focusFovTangents.top - focusFovTangents.bottom) * ref.height,
                             verticalFov, ub)
    IN  [viewport |->
            [swapChain  |-> ref.swapChain,
             arrayIndex |-> ref.arrayIndex,
             x          |-> AddInt32(focusView.viewport.x, dx),
             width      |-> AlignTo2(w),
             y          |-> AddInt32(focusView.viewport.y, dy),
             height     |-> AlignTo2(h)],
         projection |-> varjo_GetProjectionMatrix(focusFovTangents)]

\* A store through the submitted view array instead of the copy.
WriteViewInPlace(st, i, n, k, v) ==
    IF k < Len(st.caller.layers[i + 1].views)
    THEN [st EXCEPT !.caller.layers[i + 1].views[k + 1] = v]
    ELSE st

\* A store into views[k] of copy n: the cell of viewsAllocator it lands in.
WriteView(st, i, n, k, v) ==
    [st EXCEPT !.mem[ArraySize * n + k] = v,
               !.wild = @ \/ ArraySize * n + k >= st.capacity]

\* Lines 268-323: the patch loop of layer i (copy n), from focus view k on.
RECURSIVE PatchFocusViews(_, _, _, _, _, _)
PatchFocusViews(st, i, n, k, host, env) ==
    LET proj == At(st.caller.layers, i)
        cell == ArraySize * n + k
        focusView == st.mem[cell]
        referenceView == st.mem[ArraySize * n + (k % 2)]
        used == [st EXCEPT !.access[i + 1].local = @ \cup {k}]
    IN  IF st.crashed \/ k >= proj.viewCount THEN st
        ELSE IF cell >= st.capacity /\ env.fault
        THEN [used EXCEPT !.crashed = TRUE]
        ELSE IF ~IsSentinel(focusView)
        THEN PatchFocusViews(used, i, n, k + 1, host, env)
        ELSE IF "GetAlignedView" \notin bindings \/ GetFovTangentsCrashes(bindings)
        THEN [used EXCEPT !.crashed = TRUE]
        ELSE LET patched == PatchFocusView(focusView, referenceView,
                                           GetFovTangents(host, k), env.ub)
                 stored == WriteView(used, i, n, k, patched)
                 flagged == [stored EXCEPT !.projAllocator[n + 1].header.flags =
                                               @ \cup {varjo_LayerFlag_Foveated}]
             IN  PatchFocusViews(flagged, i, n, k + 1, host, env)

\* An initialiser that copies view 0 into both full views.
InitIndicesFirstTwice(viewCount) ==
    IF viewCount = 0 THEN <<0, 0>>
    ELSE <<0, 0, 2 % viewCount, 3 % viewCount>>

\* Lines 257-262: the initialiser of the 4-entry copy and the indices of the
\* submitted array it reads.
InitIndices(viewCount) ==
    IF viewCount = 0 THEN <<0, 1>>
    ELSE <<0, 1, 2 % viewCount, 3 % viewCount>>

\* Lines 226-324: one layer of multi-projection type.
MultiProjLayer(st, i, host, env) ==
    LET proj == At(st.caller.layers, i)
        vc == proj.viewCount
        n == Len(st.projAllocator)
        idx == InitIndices(vc)
        reads == (0 .. vc - 1) \cup {idx[q] : q \in 1 .. Len(idx)}
        logged == [st EXCEPT !.access[i + 1] =
                       [src |-> reads, local |-> {}, divZero |-> vc = 0]]
        crash == \/ vc > 0 /\ "GetAlignedView" \notin bindings
                 \/ vc = 0
                 \/ env.fault /\ \E j \in reads : j >= Len(proj.views)
        copied == [logged EXCEPT
                     !.projAllocator = Append(@,
                         [header |-> proj.header, viewCount |-> vc,
                          views |-> [to |-> "viewsAllocator", index |-> n]]),
                     !.newLayersPtr = Append(@, [to |-> "projAllocator", index |-> n, of |-> i]),
                     !.mem = [c \in DOMAIN @ |->
                                IF c \in ArraySize * n .. ArraySize * n + ArraySize - 1
                                THEN SrcView(proj, idx[c - ArraySize * n + 1], env)
                                ELSE @[c]]]
    IN  IF crash THEN [logged EXCEPT !.crashed = TRUE]
        ELSE PatchFocusViews(copied, i, n, 2, host, env)

\* Lines 223-325: the loop over the submitted layers, from layer i on.  A layer
\* of any other type is not touched, and no pointer to it is collected.
RECURSIVE LayerLoop(_, _, _, _)
LayerLoop(st, i, host, env) ==
    IF st.crashed \/ i >= st.caller.layerCount THEN st
    ELSE IF IsMultiProj(At(st.caller.layers, i))
    THEN LayerLoop(MultiProjLayer(st, i, host, env), i + 1, host, env)
    ELSE LayerLoop(st, i + 1, host, env)

\* The cells the call can reach: the reserved ones and, past them, the cells
\* an index beyond the 4-entry copy of the last layer lands in.
MemCells(layerCount) ==
    IF layerCount = 0 THEN 0
    ELSE ArraySize * (layerCount - 1)
             + (IF MaxViewCount > ArraySize THEN MaxViewCount ELSE ArraySize)

\* Lines 215-221: the locals of the call.
EndFrameLocals(submitInfo, env) ==
    [caller        |-> submitInfo,
     newLayersPtr  |-> << >>,
     projAllocator |-> << >>,
     mem           |-> [c \in 0 .. MemCells(submitInfo.layerCount) - 1 |-> env.garbage],
     capacity      |-> ArraySize * submitInfo.layerCount,
     access        |-> [q \in 1 .. submitInfo.layerCount |-> NoAccess],
     wild          |-> FALSE,
     crashed       |-> FALSE]

\* Lines 215-328: the whole call; the last step hands newSubmitInfo (the
\* caller's layerCount, the data of newLayersPtr) to original_EndFrameWithLayers.
EndFrameWithLayers(submitInfo, host, env) ==
    LET st == LayerLoop(EndFrameLocals(submitInfo, env), 0, host, env)
    IN  [submitInfo    |-> submitInfo,
         host          |-> host,
         caller        |-> st.caller,
         newSubmitInfo |-> [layerCount |-> submitInfo.layerCount,
                            layers |-> IF st.crashed THEN << >> ELSE st.newLayersPtr],
         projAllocator |-> st.projAllocator,
         mem           |-> st.mem,
         access        |-> st.access,
         wild          |-> st.wild,
         crashed       |-> st.crashed,
         submitted     |-> IF st.crashed THEN 0 ELSE 1]

----------------------------------------------------------------------------
\* hooked_GetTextureSize (lines 130-185).

varjo_TextureSize_Type_Stereo == "Stereo"

varjo_TextureSize_Type_DynamicFoveation == "DynamicFoveation"

\* original_GetTextureSize of host h: the focus resolution for the dynamic
\* foveation query on views 2 and 3, the native resolution otherwise.
HostTextureSize(h, type, viewIndex) ==
    IF type = varjo_TextureSize_Type_DynamicFoveation /\ viewIndex \in {2, 3}
    THEN h.focusSize
    ELSE h.nativeSize

\* Lines 169-179: one dimension, base * (fullExtent / focusExtent) converted
\* and aligned.
ScaledDimension(base, fullExtent, focusExtent, ub) ==
    AlignTo2(StaticCastInt32(base * Abs(fullExtent), Abs(focusExtent), ub))

GetTextureSize(type, viewIndex, host, env) ==
    IF type = varjo_TextureSize_Type_Stereo
    THEN LET base == HostTextureSize(host, varjo_TextureSize_Type_DynamicFoveation,
                                     2 + viewIndex)
             fullFovTangents == GetFovTangents(host, viewIndex)
             focusFovTangents == GetFovTangents(host, 2 + viewIndex)
         IN  IF GetFovTangentsCrashes(bindings)
             THEN [type |-> type, viewIndex |-> viewIndex, host |-> host,
                   width |-> base.width, height |-> base.height, crashed |-> TRUE]
             ELSE [type |-> type, viewIndex |-> viewIndex, host |-> host,
                   width |-> ScaledDimension(base.width,
                                 fullFovTangents.right - fullFovTangents.left,
                                 focusFovTangents.right - focusFovTangents.left, env.ub),
                   height |-> ScaledDimension(base.height,
                                 fullFovTangents.top - fullFovTangents.bottom,
                                 focusFovTangents.top - focusFovTangents.bottom, env.ub),
                   crashed |-> FALSE]
    ELSE LET size == HostTextureSize(host, type, viewIndex)
         IN  [type |-> type, viewIndex |-> viewIndex, host |-> host,
              width |-> size.width, height |-> size.height, crashed |-> FALSE]

----------------------------------------------------------------------------
\* hooked_GetViewDescription (lines 189-203).

\* original_GetViewDescription of host h: the display and eye of the view and
\* the host's native resolution.
HostViewDescription(h, viewIndex) ==
    [display |-> IF viewIndex \in {0, 1} THEN "context" ELSE "focus",
     eye     |-> viewIndex % 2,
     width   |-> h.nativeSize.width,
     height  |-> h.nativeSize.height]

\* A test that also takes every negative index for a full view.
IsFullViewBelowTwo(viewIndex) == viewIndex < 2

\* Line 195: the views whose size is replaced.
IsFullView(viewIndex) == viewIndex = 0 \/ viewIndex = 1

\* The call; queries are the host entry points it went through.
GetViewDescription(viewIndex, host, env) ==
    LET result == HostViewDescription(host, viewIndex)
        size == GetTextureSize(varjo_TextureSize_Type_Stereo, viewIndex, host, env)
    IN  IF IsFullView(viewIndex)
        THEN [viewIndex |-> viewIndex, host |-> host,
              result |-> [result EXCEPT !.width = size.width, !.height = size.height],
              queries |-> {"GetViewDescription", "GetTextureSize", "GetFoveatedFovTangents"},
              crashed |-> size.crashed]
        ELSE [viewIndex |-> viewIndex, host |-> host, result |-> result,
              queries |-> {"GetViewDescription"}, crashed |-> FALSE]

----------------------------------------------------------------------------
\* The values the calls are drawn from.

TanFull == FovTangents(4, -4, -4, 4)

TanHalf == FovTangents(2, -2, -2, 2)

TanWide == FovTangents(3, -3, -3, 3)

TanAsym == FovTangents(5, -3, -3, 5)

TanCorner == FovTangents(4, 0, -4, 0)

TanOutside == FovTangents(2, -2, -6, -2)

TanZeroWidth == FovTangents(2, -2, 2, 2)

TanZeroHeight == FovTangents(2, 2, -2, 2)

TanUnit == FovTangents(1, 0, 0, 1)

Size(w, h) == [width |-> w, height |-> h]

Host(full, focus, focusSize) ==
    [full |-> full, focus |-> focus, focusSize |-> focusSize, nativeSize |-> Size(2000, 1600)]

Hosts ==
    {Host(TanFull, TanHalf, Size(1000, 1001)),
     Host(TanWide, TanHalf, Size(3, 5)),
     Host(TanHalf, TanHalf, Size(5, 6)),
     Host(TanHalf, TanFull, Size(5, 3)),
     Host(TanFull, TanAsym, Size(4, 4)),
     Host(TanFull, TanCorner, Size(7, 7)),
     Host(TanFull, TanOutside, Size(4, 4)),
     Host(TanFull, TanZeroWidth, Size(4, 4)),
     Host(TanZeroHeight, TanHalf, Size(4, 4)),
     Host(TanZeroWidth, TanZeroWidth, Size(4, 4)),
     Host(TanUnit, TanUnit, Size(Int32Max, Int32Max - 1))}

\* The hosts of the frame submissions: one for each focus tangents.
FrameHosts ==
    {CHOOSE h \in Hosts : h.focus = t : t \in {g.focus : g \in Hosts}}

\* What an undefined double-to-int conversion yields: the x86 integer
\* indefinite value, or the saturated values of other targets.
UBInts == {Int32Min, 0, Int32Max}

GarbageViews ==
    {View(Viewport("garbage", 0, 0, 0, 1, 1), Matrix(TanFull)),
     View(Viewport("garbage", 0, 0, 0, 0, 0), Matrix(TanFull))}

Envs == [garbage : GarbageViews, fault : BOOLEAN, ub : UBInts]

\* The two full views of a layer: one swapchain slice per eye, side by side
\* in one slice with odd dimensions, or two views of one pixel each.
RefViews(variant) ==
    IF variant = "tiny"
    THEN <<View(Viewport("scT", 0, 0, 0, 1, 1), Matrix(TanFull)),
           View(Viewport("scT", 1, 0, 0, 1, 1), Matrix(TanFull))>>
    ELSE IF variant = "array"
    THEN <<View(Viewport("scA", 0, 0, 0, 1000, 1000), Matrix(TanFull)),
           View(Viewport("scA", 1, 0, 0, 1000, 1000), Matrix(TanFull))>>
    ELSE <<View(Viewport("scB", 0, 0, 0, 5, 7), Matrix(TanAsym)),
           View(Viewport("scB", 0, 5, 0, 5, 7), Matrix(TanAsym))>>

RefVariants == {"array", "sideBySide"}

\* The focus views an application submits: the 1x1 sentinel at the origin or
\* elsewhere, a view one pixel wide, a view one pixel high.
FocusViews ==
    {View(Viewport("scF", 0, 0, 0, 1, 1), Matrix(TanHalf)),
     View(Viewport("scF", 0, 2, 6, 1, 1), Matrix(TanHalf)),
     View(Viewport("scF", 0, 0, 0, 1, 4), Matrix(TanHalf)),
     View(Viewport("scF", 0, 0, 0, 4, 1), Matrix(TanHalf))}

FlagSets == {{}, {"BlendMode_AlphaBlend"}}

Prefix(seq, n) == [q \in 1 .. n |-> seq[q]]

Min(a, b) == IF a < b THEN a ELSE b

MultiProj(flags, views) ==
    [header |-> [type |-> varjo_LayerMultiProjType, flags |-> flags],
     viewCount |-> Len(views), views |-> views]

OtherLayer ==
    [header |-> [type |-> "Quad", flags |-> {}], viewCount |-> 0, views |-> << >>]

\* The views submitted past the fourth (a malformed layer): the sentinel or a
\* view one pixel wide.
ExtraViews == {v \in FocusViews : v.viewport.x = 0 /\ v.viewport.width = 1}

\* Every multi-projection layer of vc views.
LayersOf(vc) ==
    {MultiProj(flags, Prefix(RefViews(variant), Min(vc, 2)) \o focus \o extra) :
        flags \in FlagSets, variant \in RefVariants,
        focus \in [1 .. Min(IF vc > 2 THEN vc - 2 ELSE 0, 2) -> FocusViews],
        extra \in [1 .. (IF vc > ArraySize THEN vc - ArraySize ELSE 0) -> ExtraViews]}

FineLayers ==
    UNION {LayersOf(vc) : vc \in 0 .. MaxViewCount}
    \cup {MultiProj(flags, RefViews("tiny")) : flags \in FlagSets}

\* The layers of the submissions of several layers.
CoarseLayers ==
    LET focus == CHOOSE f \in [1 .. 3 -> FocusViews] :
                     /\ f[1].viewport.width = 4 /\ IsSentinel(f[2]) /\ f[2].viewport.x = 0
                     /\ f[3].viewport.height = 4
    IN  {OtherLayer,
         MultiProj({}, RefViews("array")),
         MultiProj({}, RefViews("sideBySide") \o Prefix(Tail(focus), 2)),
         MultiProj({}, RefViews("array") \o focus)}

SubmitInfo(layers) == [layerCount |-> Len(layers), layers |-> layers]

Submissions ==
    {SubmitInfo(layers) :
        layers \in UNION {[1 .. m -> CoarseLayers] : m \in 0 .. MaxLayers}}
    \cup {SubmitInfo(<<layer>>) : layer \in FineLayers}

TextureSizeTypes == {varjo_TextureSize_Type_Stereo, "Quad"}

ViewIndices == 0 .. 3

\* The view indices of the description queries: a negative one and one past
\* the focus views as well.
DescViewIndices == -1 .. 4

----------------------------------------------------------------------------
\* The state machine.

NoFrame == EndFrameWithLayers(SubmitInfo(<< >>), CHOOSE h \in FrameHosts : TRUE,
                              CHOOSE e \in Envs : TRUE)

NoTex == [type |-> "none", viewIndex |-> 0, host |-> CHOOSE h \in Hosts : TRUE,
          width |-> 0, height |-> 0, crashed |-> FALSE]

NoDesc == [viewIndex |-> 0, host |-> CHOOSE h \in Hosts : TRUE,
           result |-> [display |-> "none", eye |-> 0, width |-> 0, height |-> 0],
           queries |-> {}, crashed |-> FALSE]

Init ==
    /\ attached = FALSE
    /\ bindings = {}
    /\ hooked = FALSE
    /\ pc = "idle"
    /\ op = "none"
    /\ frame = NoFrame
    /\ tex = NoTex
    /\ desc = NoDesc

\* InstallHooks (lines 333-432), run by DllMain on process attach: when the
\* runtime module is found, each GetProcAddress yields a pointer or null and
\* the three detours are attached.
InstallHooks ==
    /\ ~attached
    /\ attached' = TRUE
    /\ \E varjoLib \in BOOLEAN, resolved \in SUBSET Consumed :
          /\ hooked' = varjoLib
          /\ bindings' = IF varjoLib THEN resolved ELSE {}
    /\ UNCHANGED <<pc, op, frame, tex, desc>>

\* The host calls varjo_EndFrameWithLayers.
CallEndFrameWithLayers ==
    /\ hooked /\ pc = "idle"
    /\ \E submitInfo \in Submissions, host \in FrameHosts, env \in Envs :
          /\ frame' = EndFrameWithLayers(submitInfo, host, env)
          /\ pc' = IF frame'.crashed THEN "crashed" ELSE "returned"
    /\ op' = "EndFrameWithLayers"
    /\ UNCHANGED <<attached, bindings, hooked, tex, desc>>

\* The host calls varjo_GetTextureSize.
CallGetTextureSize ==
    /\ hooked /\ pc = "idle"
    /\ \E type \in TextureSizeTypes, viewIndex \in ViewIndices, host \in Hosts, env \in Envs :
          /\ tex' = GetTextureSize(type, viewIndex, host, env)
          /\ pc' = IF tex'.crashed THEN "crashed" ELSE "returned"
    /\ op' = "GetTextureSize"
    /\ UNCHANGED <<attached, bindings, hooked, frame, desc>>

\* The host calls varjo_GetViewDescription.
CallGetViewDescription ==
    /\ hooked /\ pc = "idle"
    /\ \E viewIndex \in DescViewIndices, host \in Hosts, env \in Envs :
          /\ desc' = GetViewDescription(viewIndex, host, env)
          /\ pc' = IF desc'.crashed THEN "crashed" ELSE "returned"
    /\ op' = "GetViewDescription"
    /\ UNCHANGED <<attached, bindings, hooked, frame, tex>>

\* The caller goes on after a hooked call came back; the locals of the call
\* are gone.
Continue ==
    /\ pc = "returned"
    /\ pc' = "idle"
    /\ op' = "none"
    /\ frame' = NoFrame
    /\ tex' = NoTex
    /\ desc' = NoDesc
    /\ UNCHANGED <<attached, bindings, hooked>>

Next ==
    \/ InstallHooks
    \/ CallEndFrameWithLayers
    \/ CallGetTextureSize
    \/ CallGetViewDescription
    \/ Continue

Spec == Init /\ [][Next]_vars

----------------------------------------------------------------------------
\* The frame-submission hook: what the host receives.

FrameCalled == op = "EndFrameWithLayers"

FrameReturned == FrameCalled /\ pc = "returned"

\* The indices of the submitted layers.
LayerIndices == 0 .. frame.submitInfo.layerCount - 1

Submitted(i) == At(frame.submitInfo.layers, i)

\* The forwarded pointers that refer to a copy of a submitted layer.
Copies == {p \in {frame.newSubmitInfo.layers[q] : q \in DOMAIN frame.newSubmitInfo.layers} :
              p.to = "projAllocator"}

Copy(p) == frame.projAllocator[p.index + 1]

\* View j of the copy p as the host reads it through the copy's view pointer.
ForwardedView(p, j) == frame.mem[ArraySize * Copy(p).views.index + j]

\* C1: the forwarded layer list has layerCount entries in the submitted order,
\* entry i being the copy of layer i when that layer is of multi-projection
\* type and layer i itself otherwise.
C1_ForwardedListKeepsEveryLayer ==
    FrameReturned =>
        /\ Len(frame.newSubmitInfo.layers) = frame.newSubmitInfo.layerCount
        /\ \A i \in LayerIndices :
              LET p == At(frame.newSubmitInfo.layers, i)
              IN  /\ p.of = i
                  /\ p.to = IF IsMultiProj(Submitted(i)) THEN "projAllocator" ELSE "caller"

C3_PlacedFocusViewsUnchanged ==
    FrameReturned =>
        \A p \in Copies : \A k \in 2 .. Submitted(p.of).viewCount - 1 :
            ~IsSentinel(At(Submitted(p.of).views, k))
                => ForwardedView(p, k) = At(Submitted(p.of).views, k)

\* C4: a multi-projection layer of two views is forwarded as a copy whose
\* views 0 and 1 equal the submitted views 0 and 1.
C4_TwoViewLayerCopied ==
    FrameReturned =>
        \A i \in LayerIndices :
            (IsMultiProj(Submitted(i)) /\ Submitted(i).viewCount = 2) =>
                \E p \in Copies :
                    /\ p.of = i
                    /\ Copy(p).views.to = "viewsAllocator"
                    /\ Copy(p).viewCount = 2
                    /\ Copy(p).header = Submitted(i).header
                    /\ \A j \in {0, 1} : ForwardedView(p, j) = At(Submitted(i).views, j)

\* A returned call that forwarded a two-view layer whose views are 1x1.
C4_Witness ==
    /\ FrameReturned
    /\ \E p \in Copies :
          /\ Submitted(p.of).viewCount = 2
          /\ IsSentinel(At(Submitted(p.of).views, 0))
          /\ ForwardedView(p, 1) = At(Submitted(p.of).views, 1)

\* The multi-projection layers of the submission have 2, 3 or 4 views.
WellFormed ==
    \A i \in LayerIndices :
        IsMultiProj(Submitted(i)) => Submitted(i).viewCount \in 2 .. ArraySize

\* C5: for any viewCount the call reads the submitted view array only at
\* indices below viewCount, uses its 4-entry copy only at indices below 4,
\* never divides by zero, and forwards a layer of fewer than 2 views.
C5_AccessesInBounds ==
    FrameCalled =>
        \A i \in LayerIndices :
            IsMultiProj(Submitted(i)) =>
                /\ frame.access[i + 1].src \subseteq 0 .. Submitted(i).viewCount - 1
                /\ frame.access[i + 1].local \subseteq 0 .. ArraySize - 1
                /\ ~frame.access[i + 1].divZero
                /\ Submitted(i).viewCount < 2 => pc = "returned"

\* C6: a call with a well-formed submission forwards the frame once and
\* returns, whichever consumed entry points InstallHooks resolved.
C6_ForwardsOnceAndReturns ==
    (FrameCalled /\ WellFormed) => (pc = "returned" /\ frame.submitted = 1)

\* The sentinel focus views 2 and 3 of the forwarded copies, as pairs <<p, k>>.
PatchedViews ==
    {pk \in Copies \X (2 .. ArraySize - 1) :
        /\ pk[2] < Submitted(pk[1].of).viewCount
        /\ IsSentinel(At(Submitted(pk[1].of).views, pk[2]))}

FocusOf(pk) == At(Submitted(pk[1].of).views, pk[2])

ReferenceOf(pk) == At(Submitted(pk[1].of).views, pk[2] % 2)

\* The focus tangents lie within the angular range of the aligned tangents.
WithinRange(focusFov, aligned) ==
    /\ -aligned.projectionLeft <= focusFov.left
    /\ focusFov.left <= focusFov.right
    /\ focusFov.right <= aligned.projectionRight
    /\ -aligned.projectionBottom <= focusFov.bottom
    /\ focusFov.bottom <= focusFov.top
    /\ focusFov.top <= aligned.projectionTop

Contained(vp, ref) ==
    /\ ref.x <= vp.x
    /\ vp.x + vp.width <= ref.x + ref.width
    /\ ref.y <= vp.y
    /\ vp.y + vp.height <= ref.y + ref.height

\* C7: a patched sentinel focus view whose focus tangents lie within the
\* range of the reference view's aligned tangents has its viewport inside the
\* reference view's viewport.
C7_PatchedViewportContained ==
    FrameReturned =>
        \A pk \in PatchedViews :
            WithinRange(frame.host.focus, GetAlignedView(ReferenceOf(pk).projection))
                => Contained(ForwardedView(pk[1], pk[2]).viewport, ReferenceOf(pk).viewport)

\* C8: a patched sentinel focus view takes the reference view's swapchain and
\* array index, and its origin is the reference view's origin plus the rounded
\* offset fraction of the reference view's size.
C8_PatchedOriginFromReference ==
    FrameReturned =>
        \A pk \in PatchedViews :
            LET aligned == GetAlignedView(ReferenceOf(pk).projection)
                ref == ReferenceOf(pk).viewport
                vp == ForwardedView(pk[1], pk[2]).viewport
            IN  /\ vp.swapChain = ref.swapChain
                /\ vp.arrayIndex = ref.arrayIndex
                /\ vp.x = ref.x + RoundQuot((frame.host.focus.left + aligned.projectionLeft) * ref.width,
                                            aligned.projectionRight + aligned.projectionLeft)
                /\ vp.y = ref.y + RoundQuot((aligned.projectionTop - frame.host.focus.top) * ref.height,
                                            aligned.projectionTop + aligned.projectionBottom)

\* The scenario of the specification: full tangents of magnitude 1.0, focus
\* tangents of magnitude 0.5, the reference viewport {0, 0, 1000, 1000} and
\* the sentinel submitted at the origin give {250, 250, 500, 500}.
ScenarioPatched ==
    FrameReturned =>
        \A pk \in PatchedViews :
            (/\ frame.host.focus = TanHalf
             /\ ReferenceOf(pk) = View(Viewport("scA", pk[2] % 2, 0, 0, 1000, 1000), Matrix(TanFull))
             /\ FocusOf(pk).viewport.x = 0 /\ FocusOf(pk).viewport.y = 0)
                => ForwardedView(pk[1], pk[2]).viewport
                       = Viewport("scA", pk[2] % 2, 250, 250, 500, 500)

----------------------------------------------------------------------------
\* The texture-size hook.

TexCalled == op = "GetTextureSize"

\* A Stereo query on a full view.
StereoQuery ==
    TexCalled /\ tex.type = varjo_TextureSize_Type_Stereo /\ tex.viewIndex \in {0, 1}

\* The host's resolution for view 2 + viewIndex.
BaseSize == HostTextureSize(tex.host, varjo_TextureSize_Type_DynamicFoveation, 2 + tex.viewIndex)

FullWidth == Abs(tex.host.full.right - tex.host.full.left)

FullHeight == Abs(tex.host.full.top - tex.host.full.bottom)

FocusWidth == Abs(tex.host.focus.right - tex.host.focus.left)

FocusHeight == Abs(tex.host.focus.top - tex.host.focus.bottom)

C10_NoDegenerateDimension ==
    (StereoQuery /\ ~GetFovTangentsCrashes(bindings)) =>
        /\ pc = "returned"
        /\ tex.width > 0
        /\ tex.height > 0
        /\ (FullWidth = 0 \/ FocusWidth = 0) => tex.width = BaseSize.width
        /\ (FullHeight = 0 \/ FocusHeight = 0) => tex.height = BaseSize.height

----------------------------------------------------------------------------
\* The view-description hook.

DescReturned == op = "GetViewDescription" /\ pc = "returned"

\* The dimensions the Stereo negotiation can yield for a base dimension and
\* the full and focus extents of its axis.
Negotiated(base, fullExtent, focusExtent) ==
    IF focusExtent = 0
    THEN {AlignTo2(u) : u \in UBInts}
    ELSE {AlignTo2(TruncQuot(base * Abs(fullExtent), Abs(focusExtent)))}

\* C11: for viewIndex 0 or 1 the returned description is the host's with only
\* width and height replaced by the Stereo negotiation result; for every other
\* viewIndex it equals the host's description and only the host's description
\* query was issued.
C11_OnlyFullViewsResized ==
    DescReturned =>
        LET hostDesc == HostViewDescription(desc.host, desc.viewIndex)
            base == HostTextureSize(desc.host, varjo_TextureSize_Type_DynamicFoveation,
                                    2 + desc.viewIndex)
            full == desc.host.full
            focus == desc.host.focus
        IN  IF desc.viewIndex \in {0, 1}
            THEN /\ desc.result.display = hostDesc.display
                 /\ desc.result.eye = hostDesc.eye
                 /\ desc.result.width \in
                        Negotiated(base.width, full.right - full.left, focus.right - focus.left)
                 /\ desc.result.height \in
                        Negotiated(base.height, full.top - full.bottom, focus.top - focus.bottom)
            ELSE /\ desc.result = hostDesc
                 /\ desc.queries = {"GetViewDescription"}

\* A returned query on a full view whose size was replaced, the host's other
\* fields kept.
C11_Witness ==
    /\ DescReturned
    /\ desc.viewIndex \in {0, 1}
    /\ desc.result.width # HostViewDescription(desc.host, desc.viewIndex).width
    /\ desc.result.eye = desc.viewIndex

----------------------------------------------------------------------------
\* The alignment of the negotiated dimensions.

\* C12: when the converted product n of a Stereo query is not negative, the
\* dimension stored back is even, is at least n, exceeds n by less than 2 and
\* is kept by a second alignment, up to the largest 32-bit n.
C12_AlignUpContract ==
    (StereoQuery /\ pc = "returned") =>
        /\ FocusWidth # 0 =>
              LET n == TruncQuot(BaseSize.width * FullWidth, FocusWidth)
              IN  n >= 0 =>
                    /\ tex.width % 2 = 0
                    /\ tex.width >= n
                    /\ tex.width - n < 2
                    /\ AlignTo2(tex.width) = tex.width
        /\ FocusHeight # 0 =>
              LET n == TruncQuot(BaseSize.height * FullHeight, FocusHeight)
              IN  n >= 0 =>
                    /\ tex.height % 2 = 0
                    /\ tex.height >= n
                    /\ tex.height - n < 2
                    /\ AlignTo2(tex.height) = tex.height

----------------------------------------------------------------------------
\* The foveated flag of the forwarded copies.

\* Focus view k of the layer behind copy p was submitted with the 1x1 viewport
\* and is forwarded as its patch.
SentinelPatched(p, k) ==
    LET layer == Submitted(p.of)
    IN  /\ IsSentinel(At(layer.views, k))
        /\ \E ub \in UBInts :
               ForwardedView(p, k) =
                   PatchFocusView(At(layer.views, k), At(layer.views, k % 2),
                                  GetFovTangents(frame.host, k), ub)

\* C13: the header flags of the forwarded copy of a multi-projection layer are
\* the submitted flags, with the foveated flag added exactly when one of the
\* layer's focus views k >= 2 was submitted with the 1x1 viewport and was
\* patched; no flag the caller set is cleared.
C13_FoveatedFlagIffSentinelPatched ==
    FrameReturned =>
        \A p \in Copies :
            Copy(p).header.flags =
                Submitted(p.of).header.flags
                    \cup (IF \E k \in 2 .. Submitted(p.of).viewCount - 1 : SentinelPatched(p, k)
                          THEN {varjo_LayerFlag_Foveated} ELSE {})

====
